---- MODULE Spec2Model ----
(***************************************************************************)
(* The two order workflows of the guide, as state machines.                *)
(*                                                                         *)
(*   orderProcessingWorkflow  (examples/02-error-handling): four forward   *)
(*     activities in sequence, two completion flags, and a catch block     *)
(*     that compensates in reverse order, notifies and re-throws.          *)
(*   orderManagementWorkflow  (examples/04-production-patterns): payment,  *)
(*     then fulfilment raced against a cancel signal, with signal          *)
(*     handlers that mutate the order.                                     *)
(*                                                                         *)
(*   helloWorkflow  (src/workflows/hello-workflow): one activity, sayHello,  *)
(*     whose greeting the workflow wraps and returns.                      *)
(*                                                                         *)
(* A step of the model is one event delivered to a workflow (its start, an *)
(* activity attempt failing and being retried, an activity resolving or    *)
(* rejecting, a signal) together with the workflow code that runs          *)
(* synchronously until the next await.                                     *)
(***************************************************************************)
EXTENDS Integers, Sequences, FiniteSets, TLC

\* ------------------------------------------------------------------ inputs

\* Workflow runs: two concurrent runs of orderProcessingWorkflow, one run of
\* orderManagementWorkflow, one run of helloWorkflow.
ProcessingRuns == {"order-test-1", "order-test-2"}

ManagementRun == "order-mgmt-1"

HelloRun == "hello-world-1"

WorkflowIds == ProcessingRuns \cup {ManagementRun} \cup {HelloRun}

\* The names handed to helloWorkflow.
Names == {"Temporal Developer", "World"}

\* OrderRequest values handed to orderProcessingWorkflow.
OrderRequests ==
    { [orderId |-> "order-1", customerId |-> "cust-123",
       items |-> "items-1", paymentMethod |-> "credit-card"],
      [orderId |-> "order-2", customerId |-> "cust-456",
       items |-> "items-2", paymentMethod |-> "invalid-card"] }

\* The initialOrder values handed to orderManagementWorkflow.
ManagementOrders ==
    { [orderId |-> "signal-demo-1", customerId |-> "demo-customer-123",
       items |-> "items-demo"] }

\* Reasons a cancelOrder signal carries.
Reasons == {"customer request", "fraud check"}

\* The signals a client sends to orderManagementWorkflow.
Signals ==
    { [signal |-> "cancelOrder", args |-> <<reason>>] : reason \in Reasons }
    \cup { [signal |-> "updateOrder", args |-> <<"priority", "HIGH">>] }

\* Signals delivered to one run.
MaxSignals == 2

\* The queries a client sends to orderManagementWorkflow.
Queries == {"getOrderStatus", "getOrderUpdates"}

\* retry: { maximumAttempts: 3 } of the forward activities.
maximumAttempts == 3

\* retry: { maximumAttempts: 3 } of the order management activities.
managementMaximumAttempts == 3

\* The compensations, and sayHello, are proxied without a retry option, so the
\* platform's default policy (no attempt limit) applies; the model shows this
\* many attempts of such an activity.
MaxCompensationAttempts == 4

ForwardActivities ==
    {"validatePayment", "reserveInventory", "processShipment", "sendNotification"}

CompensationActivities == {"releaseInventory", "refundPayment"}

ManagementActivities ==
    {"processPayment", "fulfillOrder", "cancelOrder", "sendOrderNotification"}

HelloActivities == {"sayHello"}

Activities ==
    ForwardActivities \cup CompensationActivities \cup ManagementActivities
    \cup HelloActivities

VARIABLES
    taskQueue,          \* the task queue the client starts workflows on
    pc,                 \* per run: the await the workflow is suspended at
    order,              \* per run: the workflow's order argument / order state
    paymentProcessed,   \* per processing run: let paymentProcessed
    inventoryReserved,  \* per processing run: let inventoryReserved
    error,              \* per run: the error bound by the catch clause
    attempts,           \* per run and activity: attempt in progress, 0 if none
    log,                \* per run: activity invocations, their results, signals received
    outcome,            \* per run: what the workflow returned or threw
    shouldCancel,       \* management run: let shouldCancel
    cancellationReason, \* management run: let cancellationReason
    buffered,           \* management run: signals received before the handlers are set
    delivered,          \* management run: the signals received, in order
    answer              \* management run: the latest query and what it returned

processingVars == <<paymentProcessed, inventoryReserved>>

managementVars == <<shouldCancel, cancellationReason, buffered, delivered, answer>>

vars == <<taskQueue, pc, order, paymentProcessed, inventoryReserved, error,
          attempts, log, outcome, shouldCancel, cancellationReason, buffered,
          delivered, answer>>

\* ----------------------------------------------------------------- helpers

NoError == [failed |-> "none", at |-> "none"]

\* The argument of a run that has not started; a record, as every argument is.
NoOrder == [orderId |-> "none"]

NoAnswer == [query |-> "none", result |-> <<>>]

\* The activity awaited at each await of the two workflows.
AwaitedActivity(p) ==
    CASE p = "sendConfirmation"        -> "sendNotification"
      [] p = "sendFailure"             -> "sendNotification"
      [] p = "cancelBeforePayment"     -> "cancelOrder"
      [] p = "fulfillment"             -> "fulfillOrder"
      [] p = "cancelDuringFulfillment" -> "cancelOrder"
      [] p = "notifyCancelled"         -> "sendOrderNotification"
      [] p = "notifyCompleted"         -> "sendOrderNotification"
      [] p = "notifyFailed"            -> "sendOrderNotification"
      [] OTHER                         -> p

\* The Error the call at await p throws when its activity fails for good.
ErrorOf(p) == [failed |-> AwaitedActivity(p), at |-> p]

\* What a run has come to: nothing yet, a returned string, or a thrown error.
Pending == [kind |-> "pending", value |-> <<>>, error |-> NoError]

Returned(v) == [kind |-> "returned", value |-> v, error |-> NoError]

Failed(e) == [kind |-> "failed", value |-> <<>>, error |-> e]

\* Log entries: the call at await p, and its activity resolving or rejecting.
Invoked(p, args) ==
    [ev |-> "invoke", step |-> p, act |-> AwaitedActivity(p), args |-> args]

Resolved(p) == [ev |-> "ok", step |-> p, act |-> AwaitedActivity(p), args |-> <<>>]

Rejected(p) == [ev |-> "fail", step |-> p, act |-> AwaitedActivity(p), args |-> <<>>]

\* Log entry: signal sig reaches the run while it is suspended at await p.
Signalled(p, sig) == [ev |-> "signal", step |-> p, act |-> sig.signal, args |-> sig.args]

\* The activities of run r with an invocation in progress.
InFlight(r) == {a \in Activities : attempts[r][a] > 0}

\* RetryLimit with the retry option of the forward activities left out of
\* their proxyActivities call and a single attempt made.
RetryLimitSingleAttempt(a) ==
    CASE a \in CompensationActivities \cup HelloActivities -> MaxCompensationAttempts
      [] a \in ManagementActivities   -> managementMaximumAttempts
      [] OTHER                        -> 1

\* How many attempts the retry policy of activity a allows.
RetryLimit(a) ==
    CASE a \in CompensationActivities \cup HelloActivities -> MaxCompensationAttempts
      [] a \in ManagementActivities   -> managementMaximumAttempts
      [] OTHER                        -> maximumAttempts

\* The arguments each call of orderProcessingWorkflow passes.
CallArgs(p, o) ==
    CASE p = "validatePayment"  -> <<o.customerId, o.paymentMethod>>
      [] p = "reserveInventory" -> <<o.items>>
      [] p = "processShipment"  -> <<o.orderId, o.items>>
      [] p = "sendConfirmation" -> <<o.customerId, "ORDER_CONFIRMED", o.orderId>>
      [] p = "releaseInventory" -> <<o.items>>
      [] p = "refundPayment"    -> <<o.customerId, o.orderId>>
      [] p = "sendFailure"      -> <<o.customerId, "ORDER_FAILED", o.orderId>>

\* NextForward with the shipment step left out.
NextForwardSkipsShipment(p) ==
    CASE p = "validatePayment"  -> "reserveInventory"
      [] p = "reserveInventory" -> "sendConfirmation"
      [] p = "processShipment"  -> "sendConfirmation"

\* The forward step that follows each forward step in the try block.
NextForward(p) ==
    CASE p = "validatePayment"  -> "reserveInventory"
      [] p = "reserveInventory" -> "processShipment"
      [] p = "processShipment"  -> "sendConfirmation"

ForwardSteps ==
    {"validatePayment", "reserveInventory", "processShipment", "sendConfirmation"}

\* if (paymentProcessed) refundPayment(...); then sendNotification(ORDER_FAILED)
AfterRelease(payment) ==
    IF payment THEN "refundPayment" ELSE "sendFailure"

\* CatchEntry with the two compensations in forward order.
CatchEntryRefundFirst(inventory, payment) ==
    IF payment THEN "refundPayment"
    ELSE IF inventory THEN "releaseInventory" ELSE "sendFailure"

\* CatchEntry releasing the inventory whatever the flag says.
CatchEntryAlwaysReleases(inventory, payment) == "releaseInventory"

\* if (inventoryReserved) releaseInventory(...); then the rest of the catch block
CatchEntry(inventory, payment) ==
    IF inventory THEN "releaseInventory" ELSE AfterRelease(payment)

\* `Order ${order.orderId} processed successfully`
ProcessedResult(o) == <<"Order", o.orderId, "processed successfully">>

\* The activity awaited at pc[r] settles with event ev and the workflow calls
\* the activity of await p.
Proceed(r, ev, p) ==
    /\ pc' = [pc EXCEPT ![r] = p]
    /\ attempts' = [attempts EXCEPT ![r] =
            [a \in Activities |->
                IF a = AwaitedActivity(p) THEN 1
                ELSE IF a = AwaitedActivity(pc[r]) THEN 0
                ELSE @[a]]]
    /\ log' = [log EXCEPT ![r] =
            @ \o <<ev, Invoked(p, CallArgs(p, order[r]))>>]

\* The activity awaited at pc[r] settles with event ev and the workflow ends.
Complete(r, ev, result) ==
    /\ pc' = [pc EXCEPT ![r] = "done"]
    /\ attempts' = [attempts EXCEPT ![r][AwaitedActivity(pc[r])] = 0]
    /\ log' = [log EXCEPT ![r] = Append(@, ev)]
    /\ outcome' = [outcome EXCEPT ![r] = result]

\* --------------------------------------------------------------------- Init

Init ==
    /\ taskQueue \in {"hello-world", "order-processing", "order-management"}
    /\ pc = [r \in WorkflowIds |-> "init"]
    /\ order = [r \in WorkflowIds |-> NoOrder]
    /\ paymentProcessed = [r \in ProcessingRuns |-> FALSE]
    /\ inventoryReserved = [r \in ProcessingRuns |-> FALSE]
    /\ error = [r \in WorkflowIds |-> NoError]
    /\ attempts = [r \in WorkflowIds |-> [a \in Activities |-> 0]]
    /\ log = [r \in WorkflowIds |-> <<>>]
    /\ outcome = [r \in WorkflowIds |-> Pending]
    /\ shouldCancel = FALSE
    /\ cancellationReason = ""
    /\ buffered = <<>>
    /\ delivered = <<>>
    /\ answer = NoAnswer

\* ------------------------------------------------- orderProcessingWorkflow

\* The run starts: the flags are false and validatePayment is called.
StartProcessing(r, o) ==
    /\ taskQueue = "order-processing"
    /\ pc[r] = "init"
    /\ order' = [order EXCEPT ![r] = o]
    /\ pc' = [pc EXCEPT ![r] = "validatePayment"]
    /\ attempts' = [attempts EXCEPT ![r]["validatePayment"] = 1]
    /\ log' = [log EXCEPT ![r] =
            <<Invoked("validatePayment", CallArgs("validatePayment", o))>>]
    /\ UNCHANGED <<taskQueue, processingVars, error, outcome, managementVars>>

\* An attempt of an activity fails and the retry policy schedules another.
ActivityRetry(r, a) ==
    /\ pc[r] # "done"
    /\ attempts[r][a] > 0
    /\ attempts[r][a] < RetryLimit(a)
    /\ attempts' = [attempts EXCEPT ![r][a] = @ + 1]
    /\ UNCHANGED <<taskQueue, pc, order, processingVars, error, log, outcome,
                   managementVars>>

\* ValidatePaymentOk with paymentProcessed hoisted out of the workflow function,
\* one flag for all runs.
ValidatePaymentOkSharedFlag(r) ==
    /\ pc[r] = "validatePayment"
    /\ paymentProcessed' = [q \in ProcessingRuns |-> TRUE]
    /\ Proceed(r, Resolved("validatePayment"), NextForward(pc[r]))
    /\ UNCHANGED <<taskQueue, order, inventoryReserved, error, outcome, managementVars>>

\* await validatePayment(...) resolves: paymentProcessed = true, reserveInventory.
ValidatePaymentOk(r) ==
    /\ pc[r] = "validatePayment"
    /\ paymentProcessed' = [paymentProcessed EXCEPT ![r] = TRUE]
    /\ Proceed(r, Resolved("validatePayment"), NextForward(pc[r]))
    /\ UNCHANGED <<taskQueue, order, inventoryReserved, error, outcome, managementVars>>

\* await reserveInventory(...) resolves: inventoryReserved = true, processShipment.
ReserveInventoryOk(r) ==
    /\ pc[r] = "reserveInventory"
    /\ inventoryReserved' = [inventoryReserved EXCEPT ![r] = TRUE]
    /\ Proceed(r, Resolved("reserveInventory"), NextForward(pc[r]))
    /\ UNCHANGED <<taskQueue, order, paymentProcessed, error, outcome, managementVars>>

\* await processShipment(...) resolves: sendNotification(ORDER_CONFIRMED).
ProcessShipmentOk(r) ==
    /\ pc[r] = "processShipment"
    /\ Proceed(r, Resolved("processShipment"), NextForward(pc[r]))
    /\ UNCHANGED <<taskQueue, order, paymentProcessed, inventoryReserved, error, outcome, managementVars>>

\* SendConfirmationOk with a statement after the notification that throws
\* inside the try block.
SendConfirmationOkThenThrows(r) ==
    /\ pc[r] = "sendConfirmation"
    /\ error' = [error EXCEPT ![r] = ErrorOf("sendConfirmation")]
    /\ Proceed(r, Resolved(pc[r]), CatchEntry(inventoryReserved[r], paymentProcessed[r]))
    /\ UNCHANGED <<taskQueue, order, paymentProcessed, inventoryReserved, outcome,
                   managementVars>>

\* await sendNotification(ORDER_CONFIRMED) resolves: the workflow returns.
SendConfirmationOk(r) ==
    /\ pc[r] = "sendConfirmation"
    /\ Complete(r, Resolved(pc[r]), Returned(ProcessedResult(order[r])))
    /\ UNCHANGED <<taskQueue, order, paymentProcessed, inventoryReserved, error, managementVars>>

\* ForwardFails without the try/catch: the failure is dropped and the next
\* forward step is called.
ForwardFailsSwallowed(r) ==
    /\ pc[r] \in ForwardSteps \ {"sendConfirmation"}
    /\ attempts[r][AwaitedActivity(pc[r])] = RetryLimit(AwaitedActivity(pc[r]))
    /\ Proceed(r, Rejected(pc[r]), NextForward(pc[r]))
    /\ UNCHANGED <<taskQueue, order, paymentProcessed, inventoryReserved, error, outcome,
                   managementVars>>

\* The last allowed attempt of a forward activity fails: the await throws and
\* the catch block runs up to its first await.
ForwardFails(r) ==
    /\ pc[r] \in ForwardSteps
    /\ attempts[r][AwaitedActivity(pc[r])] = RetryLimit(AwaitedActivity(pc[r]))
    /\ error' = [error EXCEPT ![r] = ErrorOf(pc[r])]
    /\ Proceed(r, Rejected(pc[r]),
               CatchEntry(inventoryReserved[r], paymentProcessed[r]))
    /\ UNCHANGED <<taskQueue, order, paymentProcessed, inventoryReserved, outcome, managementVars>>

\* ReleaseInventoryOk clearing inventoryReserved once the inventory is released.
ReleaseInventoryOkClearsFlag(r) ==
    /\ pc[r] = "releaseInventory"
    /\ inventoryReserved' = [inventoryReserved EXCEPT ![r] = FALSE]
    /\ Proceed(r, Resolved("releaseInventory"), AfterRelease(paymentProcessed[r]))
    /\ UNCHANGED <<taskQueue, order, paymentProcessed, error, outcome, managementVars>>

\* await releaseInventory(...) resolves inside the catch block.
ReleaseInventoryOk(r) ==
    /\ pc[r] = "releaseInventory"
    /\ Proceed(r, Resolved("releaseInventory"), AfterRelease(paymentProcessed[r]))
    /\ UNCHANGED <<taskQueue, order, paymentProcessed, inventoryReserved, error, outcome, managementVars>>

\* await refundPayment(...) resolves inside the catch block.
RefundPaymentOk(r) ==
    /\ pc[r] = "refundPayment"
    /\ Proceed(r, Resolved("refundPayment"), "sendFailure")
    /\ UNCHANGED <<taskQueue, order, paymentProcessed, inventoryReserved, error, outcome, managementVars>>

\* await sendNotification(ORDER_FAILED) resolves: throw error.
SendFailureOk(r) ==
    /\ pc[r] = "sendFailure"
    /\ Complete(r, Resolved(pc[r]), Failed(error[r]))
    /\ UNCHANGED <<taskQueue, order, paymentProcessed, inventoryReserved, error, managementVars>>

\* An await inside the catch block throws: nothing catches it, so the
\* workflow fails with that error.  A compensation can reject at any attempt
\* (its default policy has no attempt limit, so only a non-retryable failure
\* rejects it); the notification rejects when its attempts are exhausted.
CatchAwaitFails(r) ==
    /\ pc[r] \in {"releaseInventory", "refundPayment", "sendFailure"}
    /\ pc[r] = "sendFailure" => attempts[r]["sendNotification"] = RetryLimit("sendNotification")
    /\ Complete(r, Rejected(pc[r]), Failed(ErrorOf(pc[r])))
    /\ UNCHANGED <<taskQueue, order, paymentProcessed, inventoryReserved, error, managementVars>>

ProcessingNext(r) ==
    \/ \E o \in OrderRequests : StartProcessing(r, o)
    \/ ValidatePaymentOk(r)
    \/ ReserveInventoryOk(r)
    \/ ProcessShipmentOk(r)
    \/ SendConfirmationOk(r)
    \/ ForwardFails(r)
    \/ ReleaseInventoryOk(r)
    \/ RefundPaymentOk(r)
    \/ SendFailureOk(r)
    \/ CatchAwaitFails(r)

\* ------------------------------------------------- orderManagementWorkflow

\* The arguments each call of orderManagementWorkflow passes.
ManagementCallArgs(p, o, reason) ==
    CASE p = "cancelBeforePayment"     -> <<o.orderId, reason>>
      [] p = "processPayment"          -> <<o.orderId, o.customerId>>
      [] p = "fulfillment"             -> <<o.orderId, o.items>>
      [] p = "cancelDuringFulfillment" -> <<o.orderId, reason>>
      [] p = "notifyCancelled"         -> <<o.customerId, "Order cancelled", o.orderId>>
      [] p = "notifyCompleted"         -> <<o.customerId, "Order completed", o.orderId>>
      [] p = "notifyFailed"            -> <<o.customerId, "Order failed", o.orderId>>

\* The workflow's mutable locals, as the handlers and the body see them.
Locals ==
    [status             |-> order[ManagementRun].status,
     updates            |-> order[ManagementRun].updates,
     shouldCancel       |-> shouldCancel,
     cancellationReason |-> cancellationReason]

\* The locals of a run that has just been created.
InitialLocals ==
    [status |-> "PENDING", updates |-> << <<"Order created">> >>,
     shouldCancel |-> FALSE, cancellationReason |-> ""]

\* `Error: ${error}`
ErrorEntry(e) == <<"Error:", e.failed, e.at>>

\* CancelHandler without the check of the status.
CancelHandlerUnguarded(s, reason) ==
    [s EXCEPT !.shouldCancel = TRUE,
              !.cancellationReason = reason,
              !.updates = Append(@, <<"Cancellation requested:", reason>>)]

\* setHandler(cancelOrderSignal, (reason) => {...})
CancelHandler(s, reason) ==
    IF s.status # "FULFILLED"
    THEN [s EXCEPT !.shouldCancel = TRUE,
                   !.cancellationReason = reason,
                   !.updates = Append(@, <<"Cancellation requested:", reason>>)]
    ELSE s

\* UpdateHandler keeping only the latest update of the order.
UpdateHandlerRewrites(s, field, value) ==
    [s EXCEPT !.updates = << <<"Updated", field, "to", value>> >>]

\* setHandler(updateOrderSignal, (field, value) => {...})
UpdateHandler(s, field, value) ==
    [s EXCEPT !.updates = Append(@, <<"Updated", field, "to", value>>)]

\* The handler of a signal applied to the locals.
Handle(s, sig) ==
    IF sig.signal = "cancelOrder"
    THEN CancelHandler(s, sig.args[1])
    ELSE UpdateHandler(s, sig.args[1], sig.args[2])

\* setHandler hands the new handler the buffered signals of its name, in the
\* order they were received.
RECURSIVE Dispatch(_, _, _)
Dispatch(s, name, sigs) ==
    IF sigs = <<>> THEN s
    ELSE Dispatch(IF Head(sigs).signal = name THEN Handle(s, Head(sigs)) ELSE s,
                  name, Tail(sigs))

\* BeforePayment without the shouldCancel check.
BeforePaymentIgnoresCancel(cancel) == "processPayment"

\* if (shouldCancel) { await cancelOrder(...) ... }  await processPayment(...)
BeforePayment(cancel) ==
    IF cancel THEN "cancelBeforePayment" ELSE "processPayment"

\* AfterRace without the shouldCancel check.
AfterRaceIgnoresCancel(cancel) == "notifyCompleted"

\* await Promise.race([...]); if (shouldCancel) { await cancelOrder(...) ... }
\* await fulfillmentPromise; ... await sendOrderNotification('Order completed')
AfterRace(cancel) ==
    IF cancel THEN "cancelDuringFulfillment" ELSE "notifyCompleted"

\* `Order ${order.orderId} cancelled: ${cancellationReason}`
CancelledResult(o, reason) == <<"Order", o.orderId, "cancelled:", reason>>

\* `Order ${order.orderId} cancelled during fulfillment: ${cancellationReason}`
CancelledDuringFulfillmentResult(o, reason) ==
    <<"Order", o.orderId, "cancelled during fulfillment:", reason>>

\* `Order ${order.orderId} completed successfully`
CompletedResult(o) == <<"Order", o.orderId, "completed successfully">>

\* The locals become s.
SetLocals(s) ==
    /\ order' = [order EXCEPT ![ManagementRun].status = s.status,
                              ![ManagementRun].updates = s.updates]
    /\ shouldCancel' = s.shouldCancel
    /\ cancellationReason' = s.cancellationReason

\* The activities in `settled` settle, the workflow calls those in `started`
\* without awaiting them (evs are the events so far) and then calls the
\* activity of await p.
ManagementProceed(settled, started, evs, p) ==
    /\ pc' = [pc EXCEPT ![ManagementRun] = p]
    /\ attempts' = [attempts EXCEPT ![ManagementRun] =
            [a \in Activities |->
                IF a = AwaitedActivity(p) \/ a \in started THEN 1
                ELSE IF a \in settled THEN 0
                ELSE @[a]]]
    /\ log' = [log EXCEPT ![ManagementRun] =
            @ \o evs \o <<Invoked(p,
                    ManagementCallArgs(p, order[ManagementRun], cancellationReason'))>>]

\* The awaited activity settles with event ev and the workflow ends.
ManagementComplete(ev, result) ==
    /\ pc' = [pc EXCEPT ![ManagementRun] = "done"]
    /\ attempts' = [attempts EXCEPT
            ![ManagementRun][AwaitedActivity(pc[ManagementRun])] = 0]
    /\ log' = [log EXCEPT ![ManagementRun] = Append(@, ev)]
    /\ outcome' = [outcome EXCEPT ![ManagementRun] = result]

\* ManagementCatch without the assignment of the status.
ManagementCatchKeepsStatus(p) ==
    /\ error' = [error EXCEPT ![ManagementRun] = ErrorOf(p)]
    /\ SetLocals([Locals EXCEPT !.updates = Append(@, ErrorEntry(ErrorOf(p)))])
    /\ ManagementProceed({AwaitedActivity(p)}, {}, <<Rejected(p)>>, "notifyFailed")
    /\ UNCHANGED <<taskQueue, processingVars, outcome, buffered, delivered, answer>>

\* catch (error): status CANCELLED, push `Error: ${error}`, notify 'Order failed'.
ManagementCatch(p) ==
    /\ error' = [error EXCEPT ![ManagementRun] = ErrorOf(p)]
    /\ SetLocals([Locals EXCEPT !.status = "CANCELLED",
                                !.updates = Append(@, ErrorEntry(ErrorOf(p)))])
    /\ ManagementProceed({AwaitedActivity(p)}, {}, <<Rejected(p)>>, "notifyFailed")
    /\ UNCHANGED <<taskQueue, processingVars, outcome, buffered, delivered, answer>>

\* A signal reaches the run before its first workflow task: it is buffered.
SignalBeforeStart(sig) ==
    /\ taskQueue = "order-management"
    /\ pc[ManagementRun] = "init"
    /\ Len(delivered) < MaxSignals
    /\ delivered' = Append(delivered, sig)
    /\ buffered' = Append(buffered, sig)
    /\ log' = [log EXCEPT ![ManagementRun] = Append(@, Signalled("init", sig))]
    /\ UNCHANGED <<taskQueue, pc, order, processingVars, error, attempts, outcome,
                   shouldCancel, cancellationReason, answer>>

\* The run starts: the order state is created, the handlers are set (each is
\* handed its buffered signals), the status becomes PROCESSING and the
\* cancellation check chooses between cancelOrder and processPayment.
StartManagement(o) ==
    /\ taskQueue = "order-management"
    /\ pc[ManagementRun] = "init"
    /\ LET s1 == Dispatch(InitialLocals, "cancelOrder", buffered)
           s2 == Dispatch(s1, "updateOrder", buffered)
           s3 == [s2 EXCEPT !.status = "PROCESSING",
                            !.updates = Append(@, <<"Processing payment...">>)]
           p  == BeforePayment(s3.shouldCancel)
       IN /\ order' = [order EXCEPT ![ManagementRun] =
                    [orderId |-> o.orderId, customerId |-> o.customerId,
                     items |-> o.items, status |-> s3.status, updates |-> s3.updates]]
          /\ shouldCancel' = s3.shouldCancel
          /\ cancellationReason' = s3.cancellationReason
          /\ pc' = [pc EXCEPT ![ManagementRun] = p]
          /\ attempts' = [attempts EXCEPT ![ManagementRun][AwaitedActivity(p)] = 1]
          /\ log' = [log EXCEPT ![ManagementRun] =
                  Append(@, Invoked(p, ManagementCallArgs(p, o, s3.cancellationReason)))]
    /\ buffered' = <<>>
    /\ UNCHANGED <<taskQueue, processingVars, error, outcome, delivered, answer>>

\* A signal reaches the running workflow: its handler runs; a cancel accepted
\* while the workflow waits on the race unblocks condition(() => shouldCancel)
\* and the workflow goes on to cancelOrder, fulfillOrder still being in flight.
Signal(sig) ==
    /\ pc[ManagementRun] \notin {"init", "done"}
    /\ Len(delivered) < MaxSignals
    /\ delivered' = Append(delivered, sig)
    /\ LET s == Handle(Locals, sig)
       IN /\ SetLocals(s)
          /\ IF pc[ManagementRun] = "fulfillment" /\ s.shouldCancel
             THEN ManagementProceed({}, {}, <<Signalled(pc[ManagementRun], sig)>>,
                                    AfterRace(s.shouldCancel))
             ELSE /\ log' = [log EXCEPT ![ManagementRun] =
                            Append(@, Signalled(pc[ManagementRun], sig))]
                  /\ UNCHANGED <<pc, attempts>>
    /\ UNCHANGED <<taskQueue, processingVars, error, outcome, buffered, answer>>

\* await cancelOrder(...) of the check before payment resolves: CANCELLED, return.
CancelBeforePaymentOk ==
    /\ pc[ManagementRun] = "cancelBeforePayment"
    /\ SetLocals([Locals EXCEPT !.status = "CANCELLED"])
    /\ ManagementComplete(Resolved("cancelBeforePayment"),
            Returned(CancelledResult(order[ManagementRun], cancellationReason)))
    /\ UNCHANGED <<taskQueue, processingVars, error, buffered, delivered, answer>>

\* await processPayment(...) resolves: fulfillOrder is called and raced against
\* condition(() => shouldCancel), which is evaluated at once.
ProcessPaymentOk ==
    /\ pc[ManagementRun] = "processPayment"
    /\ LET s == [Locals EXCEPT !.updates =
                    @ \o << <<"Payment processed successfully">>,
                            <<"Starting fulfillment...">> >>]
           fulfil == Invoked("fulfillment",
                        ManagementCallArgs("fulfillment", order[ManagementRun], ""))
       IN /\ SetLocals(s)
          /\ IF s.shouldCancel
             THEN ManagementProceed({"processPayment"}, {"fulfillOrder"},
                        <<Resolved("processPayment"), fulfil>>, AfterRace(s.shouldCancel))
             ELSE ManagementProceed({"processPayment"}, {},
                        <<Resolved("processPayment")>>, "fulfillment")
    /\ UNCHANGED <<taskQueue, processingVars, error, outcome, buffered, delivered, answer>>

\* FulfillOrderOk with the workflow awaiting the cancellation condition alone
\* instead of the race: the completion of fulfillOrder wakes nothing up.
FulfillOrderOkAwaitsCancel ==
    /\ pc[ManagementRun] = "fulfillment"
    /\ attempts[ManagementRun]["fulfillOrder"] > 0
    /\ attempts' = [attempts EXCEPT ![ManagementRun]["fulfillOrder"] = 0]
    /\ log' = [log EXCEPT ![ManagementRun] = Append(@, Resolved("fulfillment"))]
    /\ UNCHANGED <<taskQueue, pc, order, processingVars, error, outcome, managementVars>>

\* fulfillOrder resolves while the workflow waits on the race: the race
\* settles, shouldCancel is checked, and without a cancel the order is
\* FULFILLED and 'Order completed' is notified.
FulfillOrderOk ==
    /\ pc[ManagementRun] = "fulfillment"
    /\ LET p == AfterRace(shouldCancel)
           s == IF p = "notifyCompleted"
                THEN [Locals EXCEPT !.status = "FULFILLED",
                                    !.updates = Append(@, <<"Order fulfilled successfully">>)]
                ELSE Locals
       IN /\ SetLocals(s)
          /\ ManagementProceed({"fulfillOrder"}, {}, <<Resolved("fulfillment")>>, p)
    /\ UNCHANGED <<taskQueue, processingVars, error, outcome, buffered, delivered, answer>>

\* await cancelOrder(...) after the race resolves: CANCELLED, notify 'Order cancelled'.
CancelDuringFulfillmentOk ==
    /\ pc[ManagementRun] = "cancelDuringFulfillment"
    /\ SetLocals([Locals EXCEPT !.status = "CANCELLED"])
    /\ ManagementProceed({"cancelOrder"}, {}, <<Resolved("cancelDuringFulfillment")>>,
                         "notifyCancelled")
    /\ UNCHANGED <<taskQueue, processingVars, error, outcome, buffered, delivered, answer>>

\* await sendOrderNotification('Order cancelled') resolves: return.
NotifyCancelledOk ==
    /\ pc[ManagementRun] = "notifyCancelled"
    /\ ManagementComplete(Resolved("notifyCancelled"),
            Returned(CancelledDuringFulfillmentResult(order[ManagementRun],
                                                      cancellationReason)))
    /\ UNCHANGED <<taskQueue, order, processingVars, error, managementVars>>

\* await sendOrderNotification('Order completed') resolves: return.
NotifyCompletedOk ==
    /\ pc[ManagementRun] = "notifyCompleted"
    /\ ManagementComplete(Resolved("notifyCompleted"),
            Returned(CompletedResult(order[ManagementRun])))
    /\ UNCHANGED <<taskQueue, order, processingVars, error, managementVars>>

\* The last allowed attempt of the activity awaited inside the try block
\* fails: the await (or the race) throws and the catch block runs up to its
\* await.
ManagementAwaitFails ==
    /\ pc[ManagementRun] \in {"cancelBeforePayment", "processPayment", "fulfillment",
                              "cancelDuringFulfillment", "notifyCancelled",
                              "notifyCompleted"}
    /\ attempts[ManagementRun][AwaitedActivity(pc[ManagementRun])]
            = RetryLimit(AwaitedActivity(pc[ManagementRun]))
    /\ ManagementCatch(pc[ManagementRun])

\* await sendOrderNotification('Order failed') resolves: throw error.
NotifyFailedOk ==
    /\ pc[ManagementRun] = "notifyFailed"
    /\ ManagementComplete(Resolved("notifyFailed"), Failed(error[ManagementRun]))
    /\ UNCHANGED <<taskQueue, order, processingVars, error, managementVars>>

\* The notification inside the catch block fails: the workflow fails with it.
NotifyFailedFails ==
    /\ pc[ManagementRun] = "notifyFailed"
    /\ attempts[ManagementRun]["sendOrderNotification"] = RetryLimit("sendOrderNotification")
    /\ ManagementComplete(Rejected("notifyFailed"), Failed(ErrorOf("notifyFailed")))
    /\ UNCHANGED <<taskQueue, order, processingVars, error, managementVars>>

\* fulfillOrder settles after the race was decided by a cancel: nothing awaits
\* it any more, so its result is dropped.
FulfillOrderUnobserved(ev) ==
    /\ pc[ManagementRun] # "fulfillment"
    /\ attempts[ManagementRun]["fulfillOrder"] > 0
    /\ ev = Rejected("fulfillment") =>
            attempts[ManagementRun]["fulfillOrder"] = RetryLimit("fulfillOrder")
    /\ attempts' = [attempts EXCEPT ![ManagementRun]["fulfillOrder"] = 0]
    /\ log' = [log EXCEPT ![ManagementRun] = Append(@, ev)]
    /\ UNCHANGED <<taskQueue, pc, order, processingVars, error, outcome, managementVars>>

\* setHandler(getOrderStatusQuery, () => order.status)
\* setHandler(getOrderUpdatesQuery, () => order.updates)
QueryResult(q, s) ==
    IF q = "getOrderStatus" THEN <<s.status>> ELSE s.updates

\* Query with a getOrderUpdates handler that hands over the entries and
\* empties the list.
QueryDrainsUpdates(q) ==
    /\ pc[ManagementRun] # "init"
    /\ answer' = [query |-> q, result |-> QueryResult(q, Locals)]
    /\ order' = [order EXCEPT ![ManagementRun].updates =
                    IF q = "getOrderUpdates" THEN <<>> ELSE @]
    /\ UNCHANGED <<taskQueue, pc, processingVars, error, attempts, log, outcome,
                   shouldCancel, cancellationReason, buffered, delivered>>

\* A query is handled: once the workflow's first task has registered the
\* handlers, at any later point of the run and after its end, the handler
\* returns what it reads and the client receives it.
Query(q) ==
    /\ pc[ManagementRun] # "init"
    /\ answer' = [query |-> q, result |-> QueryResult(q, Locals)]
    /\ UNCHANGED <<taskQueue, pc, order, processingVars, error, attempts, log, outcome,
                   shouldCancel, cancellationReason, buffered, delivered>>

ManagementNext ==
    \/ \E sig \in Signals : SignalBeforeStart(sig)
    \/ \E q \in Queries : Query(q)
    \/ \E o \in ManagementOrders : StartManagement(o)
    \/ \E sig \in Signals : Signal(sig)
    \/ CancelBeforePaymentOk
    \/ ProcessPaymentOk
    \/ FulfillOrderOk
    \/ CancelDuringFulfillmentOk
    \/ NotifyCancelledOk
    \/ NotifyCompletedOk
    \/ ManagementAwaitFails
    \/ NotifyFailedOk
    \/ NotifyFailedFails
    \/ \E ev \in {Resolved("fulfillment"), Rejected("fulfillment")} :
            FulfillOrderUnobserved(ev)

\* ------------------------------------------------------------ helloWorkflow

\* `Hello, ${name}! Welcome to Temporal.`
sayHello(name) == <<"Hello, ", name, "! Welcome to Temporal.">>

\* `Workflow completed: ${greeting}`
HelloResult(greeting) == <<"Workflow completed: ">> \o greeting

\* The run starts and calls sayHello(name).
StartHello(name) ==
    /\ taskQueue = "hello-world"
    /\ pc[HelloRun] = "init"
    /\ order' = [order EXCEPT ![HelloRun] = [name |-> name]]
    /\ pc' = [pc EXCEPT ![HelloRun] = "sayHello"]
    /\ attempts' = [attempts EXCEPT ![HelloRun]["sayHello"] = 1]
    /\ log' = [log EXCEPT ![HelloRun] = <<Invoked("sayHello", <<name>>)>>]
    /\ UNCHANGED <<taskQueue, processingVars, error, outcome, managementVars>>

\* await sayHello(name) resolves: the workflow returns.
SayHelloOk ==
    /\ pc[HelloRun] = "sayHello"
    /\ Complete(HelloRun, Resolved("sayHello"),
                Returned(HelloResult(sayHello(order[HelloRun].name))))
    /\ UNCHANGED <<taskQueue, order, processingVars, error, managementVars>>

HelloNext ==
    \/ \E name \in Names : StartHello(name)
    \/ SayHelloOk

\* ---------------------------------------------------------- specification

Next ==
    \/ \E r \in ProcessingRuns : ProcessingNext(r)
    \/ ManagementNext
    \/ HelloNext
    \/ \E r \in WorkflowIds, a \in Activities : ActivityRetry(r, a)

Spec == Init /\ [][Next]_vars

\* The activity a run of orderProcessingWorkflow awaits completes or fails for
\* good and the workflow runs on to its next await or to its end.
ProcessingSettle(r) ==
    \/ ValidatePaymentOk(r)
    \/ ReserveInventoryOk(r)
    \/ ProcessShipmentOk(r)
    \/ SendConfirmationOk(r)
    \/ ForwardFails(r)
    \/ ReleaseInventoryOk(r)
    \/ RefundPaymentOk(r)
    \/ SendFailureOk(r)
    \/ CatchAwaitFails(r)

\* The same for the run of orderManagementWorkflow.
ManagementSettle ==
    \/ CancelBeforePaymentOk
    \/ ProcessPaymentOk
    \/ FulfillOrderOk
    \/ CancelDuringFulfillmentOk
    \/ NotifyCancelledOk
    \/ NotifyCompletedOk
    \/ ManagementAwaitFails
    \/ NotifyFailedOk
    \/ NotifyFailedFails

\* Every started activity eventually completes or fails, and the worker then
\* runs the workflow task that hands the result to the workflow. A settled
\* await moves the run's position on, so the steps are told by pc.
Fairness ==
    /\ \A r \in ProcessingRuns : WF_pc(ProcessingSettle(r))
    /\ WF_pc(ManagementSettle)

FairSpec == Init /\ [][Next]_vars /\ Fairness

\* ------------------------------------------------------------- properties

IsCall(e) == e.ev = "invoke"

IsCompensationCall(e) == e.ev = "invoke" /\ e.act \in CompensationActivities

IsResolution(e) == e.ev = "ok"

IsForwardResolution(e) ==
    e.ev = "ok" /\ e.step \in {"validatePayment", "reserveInventory", "processShipment",
                                "sendConfirmation"}

\* The call sites of a sequence of log entries.
StepsOf(seq) == [i \in DOMAIN seq |-> seq[i].step]

\* The calls run r has made, in order.
CallSteps(r) == StepsOf(SelectSeq(log[r], IsCall))

\* The compensation calls run r has made, in order.
CompensationSteps(r) == StepsOf(SelectSeq(log[r], IsCompensationCall))

\* The calls of run r that resolved, in order of completion.
ResolvedSteps(r) == StepsOf(SelectSeq(log[r], IsResolution))

\* The forward steps of run r that resolved, in order of completion.
CompletedSteps(r) == StepsOf(SelectSeq(log[r], IsForwardResolution))

Entries(r) == {log[r][i] : i \in DOMAIN log[r]}

\* The forward steps of orderProcessingWorkflow in program order.
ForwardOrder ==
    <<"validatePayment", "reserveInventory", "processShipment", "sendConfirmation">>

\* The call sites of the forward steps of both workflows.
ForwardCallSites == ForwardSteps \cup {"processPayment", "fulfillment"}

\* The compensations a run owes for the forward steps that resolved, last first.
OwedCompensations(r) ==
    (IF Resolved("reserveInventory") \in Entries(r) THEN <<"releaseInventory">> ELSE <<>>)
    \o (IF Resolved("validatePayment") \in Entries(r) THEN <<"refundPayment">> ELSE <<>>)

\* The unwind of run r is over and no compensation failed.
CleanUnwind(r) ==
    /\ error[r] # NoError
    /\ pc[r] \in {"sendFailure", "done"}
    /\ Rejected("releaseInventory") \notin Entries(r)
    /\ Rejected("refundPayment") \notin Entries(r)

\* C1: when forward step k fails after steps 1..k-1 succeeded and every
\* compensation succeeds, exactly steps 1..k-1 have completed and the
\* compensations invoked are those of the completed steps that have one, each
\* once, last completed first: releaseInventory before refundPayment.
C1_ReverseCompensation ==
    \A r \in ProcessingRuns :
        CleanUnwind(r) =>
            /\ \E k \in DOMAIN ForwardOrder :
                /\ error[r] = ErrorOf(ForwardOrder[k])
                /\ CompletedSteps(r) = SubSeq(ForwardOrder, 1, k - 1)
            /\ CompensationSteps(r) = OwedCompensations(r)
            /\ error[r].at \in {"processShipment", "sendConfirmation"} =>
                    CompensationSteps(r) = <<"releaseInventory", "refundPayment">>
            /\ error[r].at = "reserveInventory" =>
                    CompensationSteps(r) = <<"refundPayment">>

C1_Witness ==
    \E r \in ProcessingRuns :
        /\ pc[r] = "done"
        /\ error[r] = ErrorOf("processShipment")
        /\ outcome[r] = Failed(error[r])
        /\ CompensationSteps(r) = <<"releaseInventory", "refundPayment">>

\* C2: when releaseInventory fails in a run where validatePayment and
\* reserveInventory had succeeded, refundPayment is still invoked and the
\* final outcome carries the original forward error.
C2_UnwindContinues ==
    \A r \in ProcessingRuns :
        (pc[r] = "done" /\ Rejected("releaseInventory") \in Entries(r)) =>
            /\ "refundPayment" \in {e.step : e \in {x \in Entries(r) : IsCall(x)}}
            /\ outcome[r].kind = "failed"
            /\ outcome[r].error = error[r]

\* C3: whenever a forward step fails with error E, the failure the workflow
\* finally reports is E, whatever the compensations and the ORDER_FAILED
\* notification do.
C3_ForwardErrorReported ==
    \A r \in ProcessingRuns :
        (pc[r] = "done" /\ error[r] # NoError) => outcome[r] = Failed(error[r])

\* The result a run returns when its order went through.
SuccessResult(r) ==
    IF r \in ProcessingRuns
    THEN Returned(ProcessedResult(order[r]))
    ELSE Returned(CompletedResult(order[r]))

\* The awaits of the unwind of each workflow, and its end.
UnwindSteps ==
    {"releaseInventory", "refundPayment", "sendFailure",
     "cancelDuringFulfillment", "notifyCancelled", "notifyFailed", "done"}

C5_SuccessfulOrder ==
    \A r \in ProcessingRuns :
        (pc[r] = "done" /\ \A e \in Entries(r) : e.ev # "fail") =>
            /\ CallSteps(r) = ForwardOrder
            /\ ResolvedSteps(r) = ForwardOrder
            /\ \A e \in Entries(r) :
                    (IsCall(e) /\ e.act = "sendNotification") =>
                        e.args = <<order[r].customerId, "ORDER_CONFIRMED", order[r].orderId>>
            /\ paymentProcessed[r] /\ inventoryReserved[r]
            /\ outcome[r] = Returned(<<"Order", order[r].orderId, "processed successfully">>)

C5_Witness ==
    \E r \in ProcessingRuns :
        /\ pc[r] = "done"
        /\ outcome[r] = Returned(<<"Order", "order-1", "processed successfully">>)
        /\ Len(log[r]) = 8

\* C6: if validatePayment fails, no compensating activity is invoked and the
\* workflow fails with the validatePayment error.
C6_FirstStepFails ==
    \A r \in ProcessingRuns :
        (pc[r] = "done" /\ error[r] = ErrorOf("validatePayment")) =>
            /\ CompensationSteps(r) = <<>>
            /\ outcome[r] = Failed(ErrorOf("validatePayment"))

\* C7: whenever a run fails because a forward step failed,
\* sendNotification(customerId, 'ORDER_FAILED', orderId) has been invoked
\* before the workflow reports its failure.
C7_FailureNotified ==
    \A r \in ProcessingRuns :
        (pc[r] = "done" /\ error[r] # NoError) =>
            Invoked("sendFailure",
                    <<order[r].customerId, "ORDER_FAILED", order[r].orderId>>) \in Entries(r)

\* order.updates of the management run.
Updates == order[ManagementRun].updates

IsCancellationEntry(u) ==
    \E reason \in Reasons : u = <<"Cancellation requested:", reason>>

IsErrorEntry(u) ==
    \E p \in UnwindSteps \cup ForwardCallSites \cup {"cancelBeforePayment", "notifyCompleted"} :
        u = ErrorEntry(ErrorOf(p))

\* A cancel signal was accepted after processPayment had succeeded (an
\* accepted cancel implies the order was not FULFILLED at that time).
CancelAfterPayment ==
    /\ pc[ManagementRun] # "init"
    /\ \E i, j \in DOMAIN Updates :
        /\ i < j
        /\ Updates[i] = <<"Payment processed successfully">>
        /\ IsCancellationEntry(Updates[j])

\* C8: if a cancel signal is accepted after processPayment has succeeded and
\* before the order is fulfilled, cancelOrder is run and the final outcome
\* reflects a cancellation-triggered failure.
C8_CancellationCompensates ==
    (pc[ManagementRun] = "done" /\ CancelAfterPayment) =>
        /\ \E e \in Entries(ManagementRun) : IsCall(e) /\ e.act = "cancelOrder"
        /\ order[ManagementRun].status = "CANCELLED"
        /\ \/ outcome[ManagementRun].kind = "failed"
           \/ outcome[ManagementRun] =
                Returned(CancelledDuringFulfillmentResult(order[ManagementRun],
                                                          cancellationReason))

\* A cancel signal was accepted while the fulfilment was under way: after
\* 'Starting fulfillment...' and before any failure was caught.
CancelDuringFulfillment ==
    /\ pc[ManagementRun] # "init"
    /\ \E i, j \in DOMAIN Updates :
        /\ i < j
        /\ Updates[i] = <<"Starting fulfillment...">>
        /\ IsCancellationEntry(Updates[j])
        /\ \A k \in 1..j : ~IsErrorEntry(Updates[k])

\* fulfillOrder completed and no cancel signal was accepted.
FulfilledUncancelled ==
    /\ Resolved("fulfillment") \in Entries(ManagementRun)
    /\ ~shouldCancel

NotifyCall(p, message) ==
    Invoked(p, <<order[ManagementRun].customerId, message, order[ManagementRun].orderId>>)

\* C9 as stated: a cancel accepted while fulfillOrder is in flight ends in
\* cancelOrder, status CANCELLED, an 'Order cancelled' notification and the
\* 'cancelled during fulfillment' result; fulfillOrder completing with no
\* cancel accepted ends in status FULFILLED, an 'Order completed'
\* notification and the 'completed successfully' result.
C9_RaceAsStated ==
    /\ (pc[ManagementRun] = "done" /\ CancelDuringFulfillment) =>
        /\ \E e \in Entries(ManagementRun) : IsCall(e) /\ e.step = "cancelDuringFulfillment"
        /\ order[ManagementRun].status = "CANCELLED"
        /\ NotifyCall("notifyCancelled", "Order cancelled") \in Entries(ManagementRun)
        /\ outcome[ManagementRun] =
                Returned(CancelledDuringFulfillmentResult(order[ManagementRun],
                                                          cancellationReason))
    /\ (pc[ManagementRun] = "done" /\ FulfilledUncancelled) =>
        /\ order[ManagementRun].status = "FULFILLED"
        /\ NotifyCall("notifyCompleted", "Order completed") \in Entries(ManagementRun)
        /\ outcome[ManagementRun] = Returned(CompletedResult(order[ManagementRun]))

\* C9, amended: a cancel accepted while the fulfilment is under way has
\* cancelOrder invoked at once, with fulfillOrder left in flight or settled
\* unobserved; once that cancelOrder has succeeded the status is CANCELLED
\* and 'Order cancelled' is notified; once that notification has succeeded
\* the workflow has returned the 'cancelled during fulfillment' result.
\* fulfillOrder completing with no cancel accepted makes the status FULFILLED
\* and has 'Order completed' notified; once that notification has succeeded
\* the workflow has returned 'completed successfully' with status FULFILLED.
\* If cancelOrder or a notification fails, the run ends CANCELLED and failed.
C9_RaceResolved ==
    /\ CancelDuringFulfillment =>
        \E e \in Entries(ManagementRun) :
            /\ IsCall(e)
            /\ e.step = "cancelDuringFulfillment"
            /\ e.act = "cancelOrder"
    /\ Resolved("cancelDuringFulfillment") \in Entries(ManagementRun) =>
        /\ order[ManagementRun].status = "CANCELLED"
        /\ NotifyCall("notifyCancelled", "Order cancelled") \in Entries(ManagementRun)
    /\ Resolved("notifyCancelled") \in Entries(ManagementRun) =>
        /\ pc[ManagementRun] = "done"
        /\ outcome[ManagementRun] =
                Returned(CancelledDuringFulfillmentResult(order[ManagementRun],
                                                          cancellationReason))
    /\ FulfilledUncancelled =>
        /\ NotifyCall("notifyCompleted", "Order completed") \in Entries(ManagementRun)
        /\ \/ order[ManagementRun].status = "FULFILLED"
           \/ error[ManagementRun] = ErrorOf("notifyCompleted")
    /\ Resolved("notifyCompleted") \in Entries(ManagementRun) =>
        /\ pc[ManagementRun] = "done"
        /\ order[ManagementRun].status = "FULFILLED"
        /\ outcome[ManagementRun] = Returned(CompletedResult(order[ManagementRun]))
    /\ (pc[ManagementRun] = "done" /\ error[ManagementRun] # NoError) =>
        /\ order[ManagementRun].status = "CANCELLED"
        /\ outcome[ManagementRun].kind = "failed"

C9_Witness ==
    /\ pc[ManagementRun] = "done"
    /\ CancelDuringFulfillment
    /\ Resolved("notifyCancelled") \in Entries(ManagementRun)
    /\ outcome[ManagementRun].kind = "returned"

\* C10: within one run, no activity is started while another activity
\* invocation of the same run is still in progress.
C10_Sequential ==
    \A r \in WorkflowIds : Cardinality(InFlight(r)) <= 1

\* Everything run r of orderProcessingWorkflow owns.
RunState(r) ==
    <<pc[r], order[r], paymentProcessed[r], inventoryReserved[r], error[r],
      attempts[r], log[r], outcome[r]>>

\* The activity results run r has seen.
Rejections(r) == {e \in Entries(r) : e.ev = "fail"}

\* What the results of its own activities make of run r.
OwnResultsDecide(r) ==
    /\ paymentProcessed[r] = (Resolved("validatePayment") \in Entries(r))
    /\ inventoryReserved[r] = (Resolved("reserveInventory") \in Entries(r))
    /\ \A i \in DOMAIN log[r] :
            IsCompensationCall(log[r][i]) =>
                \E j \in 1..(i - 1) :
                    log[r][j].ev = "fail" /\ log[r][j].step \in ForwardSteps
    /\ \A i \in DOMAIN CompensationSteps(r) :
            CompensationSteps(r)[i] = OwedCompensations(r)[i]
    /\ outcome[r].kind = "failed" => Rejected(outcome[r].error.at) \in Entries(r)
    /\ Rejections(r) = {} =>
            /\ CompensationSteps(r) = <<>>
            /\ outcome[r].kind # "failed"
            /\ pc[r] = "done" => outcome[r] = Returned(ProcessedResult(order[r]))

\* C11: two concurrent runs of orderProcessingWorkflow share no mutable
\* state: a step of one run leaves everything the other owns unchanged, each
\* run's flags, compensations and outcome follow from its own activity
\* results (so a failure in one run triggers no compensation and no failure
\* in the other), and two runs whose activities all succeed both return
\* their success result.
C11_IndependentRuns ==
    /\ [](\A r \in ProcessingRuns : OwnResultsDecide(r))
    /\ [][\A r, q \in ProcessingRuns :
            (r # q /\ RunState(r)' # RunState(r)) => RunState(q)' = RunState(q)]_vars

C11_Witness ==
    \E r, q \in ProcessingRuns :
        /\ r # q
        /\ pc[r] = "done" /\ pc[q] = "done"
        /\ outcome[r] = Failed(ErrorOf("processShipment"))
        /\ CompensationSteps(r) = <<"releaseInventory", "refundPayment">>
        /\ Rejections(q) = {}
        /\ outcome[q] = Returned(ProcessedResult(order[q]))
        /\ order[q] = order[r]

\* The event a step appends first to the log of run r, if it appends one.
Appended(r) ==
    IF Len(log'[r]) > Len(log[r]) THEN log'[r][Len(log[r]) + 1]
    ELSE [ev |-> "none", step |-> "none", act |-> "none", args |-> <<>>]

\* C12: each forward activity of orderProcessingWorkflow is attempted at
\* most maximumAttempts (3) times; a forward step is taken as failed only
\* when its 3rd attempt has failed, and only then is a compensation called; a
\* step that succeeds on one of its attempts goes on to the next forward step
\* or to the result; the limit of 3 does not hold for releaseInventory and
\* refundPayment, which can be attempted again after a 3rd failed attempt.
C12_RetryPolicy ==
    /\ [](\A r \in ProcessingRuns :
            /\ \A a \in ForwardActivities : attempts[r][a] <= maximumAttempts
            /\ \A i \in DOMAIN log[r] :
                    IsCompensationCall(log[r][i]) =>
                        \E j \in 1..(i - 1) :
                            log[r][j].ev = "fail" /\ log[r][j].step \in ForwardSteps
            /\ \A c \in CompensationActivities :
                    attempts[r][c] = maximumAttempts => ENABLED ActivityRetry(r, c))
    /\ [][\A r \in ProcessingRuns :
            /\ (Appended(r).ev = "fail" /\ Appended(r).act \in ForwardActivities) =>
                    attempts[r][Appended(r).act] = maximumAttempts
            /\ (Appended(r).ev = "ok" /\ Appended(r).step \in ForwardSteps) =>
                    /\ attempts[r][Appended(r).act] \in 1..maximumAttempts
                    /\ pc'[r] \in ForwardSteps \cup {"done"}
                    /\ CompensationSteps(r)' = <<>>]_vars

C12_Witness ==
    \E r \in ProcessingRuns :
        /\ Rejected("processShipment") \in Entries(r)
        /\ pc[r] = "releaseInventory"
        /\ attempts[r]["releaseInventory"] > maximumAttempts

\* How a finished run of orderProcessingWorkflow went: every activity
\* succeeded; a forward step failed and every compensation owed for the
\* completed steps succeeded; or a forward step failed and an owed
\* compensation failed or was not run.
RollbackCase(r) ==
    IF Rejections(r) = {} THEN "clean success"
    ELSE IF \A i \in DOMAIN OwedCompensations(r) :
                Resolved(OwedCompensations(r)[i]) \in Entries(r)
         THEN "clean rollback"
         ELSE "partial rollback"

\* C13: two finished runs of orderProcessingWorkflow that went differently
\* (clean success, clean rollback, partial rollback) end in different kinds
\* of outcome.
C13_OutcomeDistinguishes ==
    \A r, q \in ProcessingRuns :
        (pc[r] = "done" /\ pc[q] = "done" /\ RollbackCase(r) # RollbackCase(q)) =>
            outcome[r].kind # outcome[q].kind

\* The entry the handler of signal sig appends to order.updates.
EntryOf(sig) ==
    IF sig.signal = "cancelOrder"
    THEN <<"Cancellation requested:", sig.args[1]>>
    ELSE <<"Updated", sig.args[1], "to", sig.args[2]>>

EntriesOf(sigs) == [i \in DOMAIN sigs |-> EntryOf(sigs[i])]

IsCancelSignal(sig) == sig.signal = "cancelOrder"

IsUpdateSignal(sig) == sig.signal = "updateOrder"

IsSignalEntry(u) == \E sig \in Signals : u = EntryOf(sig)

IsUpdateEntry(u) == \E sig \in Signals : IsUpdateSignal(sig) /\ u = EntryOf(sig)

IsPrefix(a, b) == Len(a) <= Len(b) /\ SubSeq(b, 1, Len(a)) = a

\* Sequence a can be had from sequence b by leaving entries out.
RECURSIVE IsSubsequence(_, _)
IsSubsequence(a, b) ==
    IF a = <<>> THEN TRUE
    ELSE IF b = <<>> THEN FALSE
    ELSE IF Head(a) = Head(b) THEN IsSubsequence(Tail(a), Tail(b))
    ELSE IsSubsequence(a, Tail(b))

\* A step of the running workflow leaves the entries order.updates has where
\* they are.
AppendOnly ==
    pc[ManagementRun] # "init" => IsPrefix(Updates, Updates')

\* A signal delivered to the running workflow appends its one entry, unless
\* it is a cancel that finds the order FULFILLED.
SignalAppendsOne ==
    (pc[ManagementRun] # "init" /\ delivered' # delivered) =>
        LET sig == delivered'[Len(delivered')]
        IN IF IsCancelSignal(sig) /\ order[ManagementRun].status = "FULFILLED"
           THEN Updates' = Updates
           ELSE Updates' = Append(Updates, EntryOf(sig))

\* C14 as stated: order.updates only grows at its end, every delivered
\* updateOrder signal and every accepted cancelOrder signal has exactly one
\* entry, and the entries of the signals stand in the order the signals were
\* delivered.
C14_DeliveryOrder ==
    /\ [](pc[ManagementRun] # "init" =>
            /\ IsSubsequence(SelectSeq(Updates, IsSignalEntry), EntriesOf(delivered))
            /\ SelectSeq(Updates, IsUpdateEntry)
                    = EntriesOf(SelectSeq(delivered, IsUpdateSignal)))
    /\ [][AppendOnly /\ SignalAppendsOne]_vars

\* C14, amended: order.updates only grows at its end; a signal delivered to
\* the running workflow appends its one entry when it is delivered (a cancel
\* that finds the order FULFILLED appends none); the signals delivered before
\* the workflow's first task have their entries between 'Order created' and
\* 'Processing payment...', the cancelOrder entries first and the updateOrder
\* entries after them, each group in delivery order.
C14_AuditTrail ==
    /\ [](pc[ManagementRun] # "init" =>
            SelectSeq(Updates, IsUpdateEntry)
                = EntriesOf(SelectSeq(delivered, IsUpdateSignal)))
    /\ [][/\ AppendOnly
          /\ SignalAppendsOne
          /\ (pc[ManagementRun] = "init" /\ pc'[ManagementRun] # "init") =>
                Updates' = << <<"Order created">> >>
                           \o EntriesOf(SelectSeq(delivered, IsCancelSignal))
                           \o EntriesOf(SelectSeq(delivered, IsUpdateSignal))
                           \o << <<"Processing payment...">> >>]_vars

C14_Witness ==
    /\ pc[ManagementRun] = "done"
    /\ delivered = << [signal |-> "updateOrder", args |-> <<"priority", "HIGH">>],
                      [signal |-> "cancelOrder", args |-> <<"fraud check">>] >>
    /\ Updates = << <<"Order created">>, <<"Processing payment...">>,
                    <<"Updated", "priority", "to", "HIGH">>,
                    <<"Payment processed successfully">>, <<"Starting fulfillment...">>,
                    <<"Cancellation requested:", "fraud check">> >>

\* C15: a step that answers a query hands the client the current
\* order.status (getOrderStatus) or the current order.updates
\* (getOrderUpdates) and changes neither the order, shouldCancel,
\* cancellationReason nor the workflow's progress, wherever the run stands.
C15_QueriesReadOnly ==
    [][answer' # answer =>
        /\ answer'.query = "getOrderStatus" =>
                answer'.result = <<order[ManagementRun].status>>
        /\ answer'.query = "getOrderUpdates" =>
                answer'.result = order[ManagementRun].updates
        /\ answer'.query \in Queries
        /\ UNCHANGED <<order, shouldCancel, cancellationReason, pc, attempts, log,
                       error, outcome, buffered, delivered>>]_vars

C15_Witness ==
    /\ pc[ManagementRun] = "fulfillment"
    /\ answer.query = "getOrderUpdates"
    /\ answer.result = order[ManagementRun].updates
    /\ Len(answer.result) = 4

\* The run has just started: its first workflow task has called
\* processPayment and nothing has happened since.
RightAfterStart ==
    /\ pc[ManagementRun] = "processPayment"
    /\ log[ManagementRun] =
            <<Invoked("processPayment", <<order[ManagementRun].orderId,
                                          order[ManagementRun].customerId>>)>>
    /\ attempts[ManagementRun]["processPayment"] = 1
    /\ delivered = <<>>
    /\ answer = NoAnswer

\* C16: the first getOrderStatus query, handled right after the run has
\* started, returns PENDING; a later getOrderStatus query handled while
\* processPayment is in progress returns PROCESSING.
C16_StatusQueries ==
    [][(answer' # answer /\ answer'.query = "getOrderStatus") =>
        /\ RightAfterStart => answer'.result = <<"PENDING">>
        /\ (answer # NoAnswer /\ pc[ManagementRun] = "processPayment") =>
                answer'.result = <<"PROCESSING">>]_vars

PriorityHigh == [signal |-> "updateOrder", args |-> <<"priority", "HIGH">>]

\* C17: in a run where one updateOrder('priority', 'HIGH') signal is
\* delivered while processPayment is in progress, nothing fails and no cancel
\* is sent, the getOrderUpdates query made after the run's end returns
\* 'Order created', 'Processing payment...', 'Payment processed
\* successfully', 'Updated priority to HIGH', 'Starting fulfillment...',
\* 'Order fulfilled successfully', in that order.
C17_FinalUpdates ==
    ( /\ pc[ManagementRun] = "done"
      /\ delivered = <<PriorityHigh>>
      /\ Signalled("processPayment", PriorityHigh) \in Entries(ManagementRun)
      /\ \A e \in Entries(ManagementRun) : e.ev # "fail"
      /\ outcome[ManagementRun] = Returned(CompletedResult(order[ManagementRun]))
      /\ answer.query = "getOrderUpdates"
      /\ Len(answer.result) = Len(Updates) ) =>
        answer.result = << <<"Order created">>, <<"Processing payment...">>,
                           <<"Payment processed successfully">>,
                           <<"Updated", "priority", "to", "HIGH">>,
                           <<"Starting fulfillment...">>,
                           <<"Order fulfilled successfully">> >>

\* C18: helloWorkflow(name) calls two activities one after the other, a
\* greeting and then a farewell, and returns 'Hello, <name>! Goodbye,
\* <name>!'.
C18_HelloGoodbye ==
    pc[HelloRun] = "done" =>
        /\ Len(CallSteps(HelloRun)) = 2
        /\ Len(ResolvedSteps(HelloRun)) = 2
        /\ outcome[HelloRun] =
                Returned(<<"Hello, ", order[HelloRun].name, "! Goodbye, ",
                           order[HelloRun].name, "!">>)

\* C19: when fulfillOrder fails after processPayment has succeeded and no
\* cancel signal was sent, cancelOrder is invoked after the failure, and the
\* workflow then fails with the fulfillOrder error.
C19_FulfillmentFailureUnwound ==
    ( /\ pc[ManagementRun] = "done"
      /\ error[ManagementRun] = ErrorOf("fulfillment")
      /\ Resolved("processPayment") \in Entries(ManagementRun)
      /\ SelectSeq(delivered, IsCancelSignal) = <<>> ) =>
        /\ \E i, j \in DOMAIN log[ManagementRun] :
                /\ i < j
                /\ log[ManagementRun][i] = Rejected("fulfillment")
                /\ IsCall(log[ManagementRun][j])
                /\ log[ManagementRun][j].act = "cancelOrder"
        /\ outcome[ManagementRun] = Failed(ErrorOf("fulfillment"))

\* Log entry e is a cancel signal that was accepted: it reached the run when
\* the order was not FULFILLED.
IsAcceptedCancel(e) ==
    e.ev = "signal" /\ e.act = "cancelOrder" /\ e.step # "notifyCompleted"

\* C20: once a cancel signal has been accepted, orderManagementWorkflow calls
\* no further forward step: neither processPayment nor fulfillOrder is
\* invoked after it; a cancel accepted while processPayment is in progress
\* means fulfillOrder is never invoked.
C20_NoForwardAfterCancel ==
    \A i, j \in DOMAIN log[ManagementRun] :
        (i < j /\ IsAcceptedCancel(log[ManagementRun][i]) /\ IsCall(log[ManagementRun][j])) =>
            log[ManagementRun][j].act \notin {"processPayment", "fulfillOrder"}

\* C21: no run of orderManagementWorkflow has both fulfillOrder completing
\* successfully and cancelOrder invoked.
C21_FulfilledOrCancelled ==
    ~ ( /\ Resolved("fulfillment") \in Entries(ManagementRun)
        /\ \E e \in Entries(ManagementRun) : IsCall(e) /\ e.act = "cancelOrder" )

\* C22: once order.status is FULFILLED, no step of the run changes it.
C22_FulfilledIsTerminal ==
    [][(pc[ManagementRun] # "init" /\ order[ManagementRun].status = "FULFILLED") =>
            order'[ManagementRun].status = "FULFILLED"]_vars

\* The cancel signals among those delivered before the handlers were set.
BufferedCancels == SelectSeq(delivered, IsCancelSignal)

\* C23: a cancelOrder signal handled while order.status is FULFILLED leaves
\* shouldCancel, cancellationReason, order.status and order.updates as they
\* are; handled in any other status it sets shouldCancel, stores its reason
\* and appends one 'Cancellation requested: <reason>' entry, the status
\* staying as it is.  Cancel signals buffered before the handlers were set
\* are handled at the start, while the status is PENDING.
C23_CancelSignalEffect ==
    [][/\ (pc[ManagementRun] # "init" /\ delivered' # delivered
              /\ IsCancelSignal(delivered'[Len(delivered')])) =>
            IF order[ManagementRun].status = "FULFILLED"
            THEN UNCHANGED <<shouldCancel, cancellationReason, order>>
            ELSE /\ shouldCancel'
                 /\ cancellationReason' = delivered'[Len(delivered')].args[1]
                 /\ Updates' = Append(Updates, EntryOf(delivered'[Len(delivered')]))
                 /\ order'[ManagementRun].status = order[ManagementRun].status
       /\ (pc[ManagementRun] = "init" /\ pc'[ManagementRun] # "init") =>
            IF BufferedCancels = <<>>
            THEN ~shouldCancel' /\ cancellationReason' = ""
            ELSE /\ shouldCancel'
                 /\ cancellationReason' = BufferedCancels[Len(BufferedCancels)].args[1]
                 /\ SelectSeq(Updates', IsCancellationEntry) = EntriesOf(BufferedCancels)
      ]_vars

C23_Witness ==
    /\ pc[ManagementRun] = "notifyCompleted"
    /\ order[ManagementRun].status = "FULFILLED"
    /\ \E sig \in Signals :
            /\ IsCancelSignal(sig)
            /\ Signalled("notifyCompleted", sig) \in Entries(ManagementRun)
    /\ ~shouldCancel
    /\ cancellationReason = ""

\* The run returned one of its two cancelled results.
ReturnedCancelled ==
    /\ pc[ManagementRun] = "done"
    /\ outcome[ManagementRun].kind = "returned"
    /\ outcome[ManagementRun].value[3] \in {"cancelled:", "cancelled during fulfillment:"}

\* C24: the reason in a returned cancelled result is the reason that was
\* passed to the cancelOrder activity of that run.
C24_SameReason ==
    ReturnedCancelled =>
        \A e \in Entries(ManagementRun) :
            (IsCall(e) /\ e.act = "cancelOrder") =>
                e.args[2] = outcome[ManagementRun].value[4]

\* A cancel signal had been accepted when the workflow reached the check
\* before the payment.
CancelledBeforePayment ==
    \E e \in Entries(ManagementRun) : IsAcceptedCancel(e) /\ e.step = "init"

\* The calls of activity a the management run has made.
CallsOf(a) == SelectSeq(CallSteps(ManagementRun), LAMBDA p : AwaitedActivity(p) = a)

\* C25 as stated: with a cancel accepted before the check that precedes the
\* payment, processPayment and fulfillOrder are never invoked, cancelOrder is
\* invoked exactly once, and the run ends with status CANCELLED, returning
\* 'Order <id> cancelled: <reason>'.
C25_CancelBeforePaymentReturns ==
    (pc[ManagementRun] # "init" /\ CancelledBeforePayment) =>
        /\ CallsOf("processPayment") = <<>>
        /\ CallsOf("fulfillOrder") = <<>>
        /\ CallsOf("cancelOrder") = <<"cancelBeforePayment">>
        /\ pc[ManagementRun] = "done" =>
                /\ order[ManagementRun].status = "CANCELLED"
                /\ outcome[ManagementRun] =
                        Returned(CancelledResult(order[ManagementRun], cancellationReason))

\* C25, amended: with a cancel accepted before the check that precedes the
\* payment, processPayment and fulfillOrder are never invoked and cancelOrder
\* is invoked exactly once; once that cancelOrder has succeeded the status is
\* CANCELLED and the workflow has returned 'Order <id> cancelled: <reason>',
\* the reason being that of the latest accepted cancel; if that cancelOrder
\* fails for good the status is CANCELLED as well and the run ends failed.
C25_CancelBeforePayment ==
    (pc[ManagementRun] # "init" /\ CancelledBeforePayment) =>
        /\ CallsOf("processPayment") = <<>>
        /\ CallsOf("fulfillOrder") = <<>>
        /\ CallsOf("cancelOrder") = <<"cancelBeforePayment">>
        /\ Resolved("cancelBeforePayment") \in Entries(ManagementRun) =>
                /\ pc[ManagementRun] = "done"
                /\ order[ManagementRun].status = "CANCELLED"
                /\ outcome[ManagementRun] =
                        Returned(CancelledResult(order[ManagementRun], cancellationReason))
        /\ Rejected("cancelBeforePayment") \in Entries(ManagementRun) =>
                /\ order[ManagementRun].status = "CANCELLED"
                /\ pc[ManagementRun] \in {"notifyFailed", "done"}
                /\ pc[ManagementRun] = "done" => outcome[ManagementRun].kind = "failed"

C25_Witness ==
    /\ pc[ManagementRun] = "done"
    /\ CancelledBeforePayment
    /\ order[ManagementRun].status = "CANCELLED"
    /\ outcome[ManagementRun] =
            Returned(<<"Order", "signal-demo-1", "cancelled:", "fraud check">>)

\* The forward step each compensation undoes.
Undoes(c) == IF c = "releaseInventory" THEN "reserveInventory" ELSE "validatePayment"

\* The forward steps that come after forward step p.
LaterSteps(p) ==
    IF p = "validatePayment"
    THEN {"reserveInventory", "processShipment", "sendConfirmation"}
    ELSE {"processShipment", "sendConfirmation"}

\* C26: in a run of orderProcessingWorkflow a compensation is invoked only
\* after its forward step succeeded and a later forward step then failed
\* (releaseInventory after reserveInventory, refundPayment after
\* validatePayment), each at most once, and never in a run that returns
\* success.
C26_CompensationOnlyWhenOwed ==
    \A r \in ProcessingRuns :
        /\ \A i \in DOMAIN log[r] :
                IsCompensationCall(log[r][i]) =>
                    \E j, k \in 1..(i - 1) :
                        /\ j < k
                        /\ log[r][j] = Resolved(Undoes(log[r][i].act))
                        /\ log[r][k].ev = "fail"
                        /\ log[r][k].step \in LaterSteps(Undoes(log[r][i].act))
        /\ \A c \in CompensationActivities :
                Cardinality({i \in DOMAIN log[r] :
                                IsCall(log[r][i]) /\ log[r][i].act = c}) <= 1
        /\ outcome[r].kind = "returned" => CompensationSteps(r) = <<>>

C26_Witness ==
    \E r \in ProcessingRuns :
        /\ pc[r] = "done"
        /\ error[r] = ErrorOf("sendConfirmation")
        /\ CompensationSteps(r) = <<"releaseInventory", "refundPayment">>
        /\ Resolved("refundPayment") \in Entries(r)

\* C27: in a run of orderProcessingWorkflow paymentProcessed and
\* inventoryReserved never go back from true to false, also not while the
\* catch block compensates; inventoryReserved is true only if
\* paymentProcessed is; and the forward steps completed so far are a prefix
\* of the step order.
C27_FlagsOnlyGrow ==
    /\ [](\A r \in ProcessingRuns :
            /\ inventoryReserved[r] => paymentProcessed[r]
            /\ IsPrefix(CompletedSteps(r), ForwardOrder)
            /\ paymentProcessed[r] = (Len(CompletedSteps(r)) >= 1)
            /\ inventoryReserved[r] = (Len(CompletedSteps(r)) >= 2))
    /\ [][\A r \in ProcessingRuns :
            /\ paymentProcessed[r] => paymentProcessed'[r]
            /\ inventoryReserved[r] => inventoryReserved'[r]
            /\ IsPrefix(CompletedSteps(r), CompletedSteps(r)')]_vars

C27_Witness ==
    \E r \in ProcessingRuns :
        /\ pc[r] = "refundPayment"
        /\ Resolved("releaseInventory") \in Entries(r)
        /\ paymentProcessed[r]
        /\ inventoryReserved[r]

\* C28: when the run of orderManagementWorkflow has finished, the status is
\* FULFILLED exactly if the workflow returned 'completed successfully', it is
\* CANCELLED if the workflow returned a cancelled result or failed, and it is
\* neither PENDING nor PROCESSING.
C28_StatusMatchesOutcome ==
    pc[ManagementRun] = "done" =>
        /\ order[ManagementRun].status = "FULFILLED"
                <=> outcome[ManagementRun] = Returned(CompletedResult(order[ManagementRun]))
        /\ (ReturnedCancelled \/ outcome[ManagementRun].kind = "failed") =>
                order[ManagementRun].status = "CANCELLED"
        /\ order[ManagementRun].status \in {"FULFILLED", "CANCELLED"}

C28_Witness ==
    /\ pc[ManagementRun] = "done"
    /\ outcome[ManagementRun] = Failed(ErrorOf("processPayment"))
    /\ order[ManagementRun].status = "CANCELLED"

\* C29: no run of orderProcessingWorkflow has both its ORDER_CONFIRMED
\* notification and its ORDER_FAILED notification sent successfully; once
\* ORDER_CONFIRMED was sent, ORDER_FAILED is not even attempted.
C29_ConfirmedOrFailed ==
    \A r \in ProcessingRuns :
        Resolved("sendConfirmation") \in Entries(r) =>
            /\ Resolved("sendFailure") \notin Entries(r)
            /\ "sendFailure" \notin {CallSteps(r)[i] : i \in DOMAIN CallSteps(r)}
            /\ outcome[r] = Returned(ProcessedResult(order[r]))

C29_Witness ==
    \E r \in ProcessingRuns :
        /\ pc[r] = "done"
        /\ Rejected("sendConfirmation") \in Entries(r)
        /\ Resolved("sendFailure") \in Entries(r)
        /\ Invoked("sendConfirmation",
                   <<order[r].customerId, "ORDER_CONFIRMED", order[r].orderId>>) \in Entries(r)

\* A run is underway from its start to its end: it has neither returned nor
\* failed yet.
Underway(r) == pc[r] \notin {"init", "done"}

\* C30: provided every started activity eventually completes or fails, every
\* started run of orderProcessingWorkflow and of orderManagementWorkflow
\* eventually ends, returning or failing: again and again a moment comes at
\* which no run is underway, and a run once underway is no longer so only
\* when it has ended. The management run ends also when no cancel signal ever
\* arrives.
C30_Termination ==
    []<>(\A r \in ProcessingRuns \cup {ManagementRun} : ~Underway(r))

C30_Witness ==
    /\ pc[ManagementRun] = "done"
    /\ delivered = <<>>
    /\ Resolved("fulfillment") \in Entries(ManagementRun)
    /\ outcome[ManagementRun] = Returned(CompletedResult(order[ManagementRun]))

====
